---- MODULE Spec2Model ----
(***************************************************************************)
(* The ingest-process routes of api-v2 (src/api/routes/ingest.py) over the *)
(* request models of src/api/models/ingest.py.                             *)
(*                                                                         *)
(* The shared state is the database: the ingest_process table, the         *)
(* ingest_process_tag table and the object_group table.  Every request     *)
(* runs in a coroutine of its own with a session of its own; a coroutine   *)
(* gives up control only at an await, so one action is one stretch of a    *)
(* handler from one database round trip to the next.  The database runs    *)
(* at READ COMMITTED: a statement sees what was committed when it runs,    *)
(* and a session's own uncommitted writes.                                 *)
(***************************************************************************)
EXTENDS Integers, Sequences, FiniteSets, TLC

VARIABLES
    ingest_process,      \* committed rows of ingest_process: id -> row
    ingest_process_tag,  \* rows of ingest_process_tag, in insertion order
    object_group,        \* committed ids of object_group
    objects,             \* rows of the object table, in insertion order
    req,                 \* the requests in flight: slot -> request record
    started,             \* number of requests received so far
    last                 \* history: the last add-tag that was answered, or NoLast

vars == <<ingest_process, ingest_process_tag, object_group, objects, req, started, last>>

----------------------------------------------------------------------------
(* Bounds of the model *)

\* requests received in one behaviour
MaxRequests == 3
\* fields one request body sets (patch, create)
MaxFieldsSet == 2

\* the coroutines that may be in flight at once
Requests == {"r1", "r2"}

----------------------------------------------------------------------------
(* Values *)

\* Python None in an integer column / a text column
NoId == 0
None == "None"
\* an object that carries no URL
NoUrl == <<>>

\* rows of maps.sources (read only for these routes)
Sources == {7, 8}

\* the process ids the writing requests and the read of one process name:
\* 1 exists, 3 does not.  Process 2 exists and no write names it: whatever
\* happens to it is a frame violation.
ReqIds == {1, 3}
\* the process ids the listing of objects names: the object group of 1 is
\* empty, the one of 2 holds objects, 3 does not exist
ListIds == {1, 2, 3}
TagStrings == {"a", "b"}

\* class Post: the fields pydantic keeps of a request body (extra = "ignore")
PostFields == {"state", "comments", "source_id", "access_group_id"}

\* class Get(Post): the fields of a response
GetFields == PostFields \cup {"id", "object_group_id", "created_on", "completed_on"}

\* class Patch(Get) instead of Patch(Post): the immutable fields become patchable
PatchFieldsOfGet == GetFields \ {"id"}

\* class Patch(Post): pass
PatchFields == PostFields

IntFields == {"source_id", "access_group_id", "id", "object_group_id", "created_on"}

\* a field's default in the models: Optional[...] = None
FieldDefault(f) == IF f \in IntFields THEN NoId ELSE None

\* the elements of a sequence
Range(s) == { s[i] : i \in DOMAIN s }

----------------------------------------------------------------------------
(* pydantic: parsing a request body and dumping a model *)

\* Model(**json): unknown keys are dropped, missing fields take their default,
\* and the keys that were given are remembered (model_fields_set)
Parse(json, fields) ==
    [ vals       |-> [f \in fields |-> IF f \in DOMAIN json THEN json[f] ELSE FieldDefault(f)],
      fields_set |-> (DOMAIN json) \cap fields ]

\* model_dump() of every field, given or not
ModelDumpAll(obj, exclude_unset) == obj.vals

\* model_dump(exclude_unset = ...)
ModelDump(obj, exclude_unset) ==
    IF exclude_unset
    THEN [f \in obj.fields_set |-> obj.vals[f]]
    ELSE obj.vals

----------------------------------------------------------------------------
(* The database *)

\* the tag strings of process id, as the relationship IngestProcessSchema.tags
\* loads them: the rows owned by id, in insertion order.  A row another
\* session has deleted but not committed is still read.
RECURSIVE TagsOf(_, _)
TagsOf(rows, id) ==
    IF rows = <<>> THEN <<>>
    ELSE LET h == Head(rows)
             t == TagsOf(Tail(rows), id)
         IN  IF h.ingest_process_id = id THEN <<h.tag>> \o t ELSE t

\* DELETE ... WHERE ingest_process_id = id: every tag of the process goes
MatchesOwnerOnly(row, id, tag) == row.ingest_process_id = id

\* DELETE ... WHERE tag = tag: the tag goes from every process
MatchesTagOnly(row, id, tag) == row.tag = tag

\* DELETE ... WHERE and_(ingest_process_id == id, tag == tag)
Matches(row, id, tag) == row.ingest_process_id = id /\ row.tag = tag

\* rows without the ones session r has deleted
RECURSIVE Without(_, _)
Without(rows, r) ==
    IF rows = <<>> THEN <<>>
    ELSE IF Head(rows).del = r THEN Without(Tail(rows), r)
         ELSE <<Head(rows)>> \o Without(Tail(rows), r)

\* the committed content of the tag table: a row deleted by a session that
\* has not committed is still there
Committed(rows) == [i \in DOMAIN rows |-> [rows[i] EXCEPT !.del = "none"]]

\* the row an ObjectGroup() is given: the next value of the id sequence
NewGroupId == Cardinality(object_group) + 1

\* what persists, as a reader would find it
Db == [ ip |-> ingest_process, tags |-> Committed(ingest_process_tag), og |-> object_group,
        obj |-> objects ]

\* ObjectGroup.objects: the objects that reference group g
RECURSIVE ObjectsOf(_, _)
ObjectsOf(rows, g) ==
    IF rows = <<>> THEN <<>>
    ELSE LET t == ObjectsOf(Tail(rows), g)
         IN  IF Head(rows).object_group_id = g THEN <<Head(rows)>> \o t ELSE t

----------------------------------------------------------------------------
(* Requests *)

\* the failures of the object store during one call: none, the building of
\* the client, or the request for the URL of the k-th object
NoFailure == [ of |-> "nothing", at |-> 0 ]
ClientFailure == [ of |-> "client", at |-> 0 ]
Failures(n) == {NoFailure, ClientFailure} \cup { [ of |-> "presign", at |-> k ] : k \in 1..n }

Idle == [ kind |-> "none", pc |-> "idle", id |-> NoId, tag |-> "", json |-> <<>>,
          access |-> TRUE, out |-> 0, res |-> <<>>, pend |-> <<>>, wait |-> {},
          minio |-> 0, presigned |-> 0, failure |-> NoFailure, db0 |-> <<>> ]

NoLast == [ id |-> NoId, tag |-> "", tags0 |-> <<>> ]

\* a request arrives in slot r: the handler is entered
Arrive(r, kind, id, tag, json, access) ==
    [ Idle EXCEPT !.kind = kind, !.id = id, !.tag = tag, !.json = json,
                  !.access = access, !.db0 = Db ]

\* the handler returns or raises: status code and response body
Finish(q, out, res) == [ q EXCEPT !.pc = "done", !.out = out, !.res = res ]

CanArrive(r) == req[r].pc = "idle" /\ started < MaxRequests

\* Get(**row.__dict__) / response_model = Get: the fields of Get
ToGet(row) == [f \in GetFields |-> row[f]]

Init ==
    /\ ingest_process =
         [ i \in {1, 2} |->
             [ id |-> i, state |-> "pending", comments |-> "c0", source_id |-> 7,
               access_group_id |-> 1, object_group_id |-> i, created_on |-> 10 + i,
               completed_on |-> None ] ]
    /\ ingest_process_tag = << [ingest_process_id |-> 1, tag |-> "a", del |-> "none"],
                             [ingest_process_id |-> 2, tag |-> "b", del |-> "none"] >>
    /\ object_group = {1, 2}
    /\ objects = << [ id |-> 1, object_group_id |-> 2, host |-> "h1", bucket |-> "b1",
                      key |-> "k1", pre_signed_url |-> NoUrl ],
                    [ id |-> 2, object_group_id |-> 2, host |-> "h2", bucket |-> "b1",
                      key |-> "k2", pre_signed_url |-> NoUrl ] >>
    /\ req = [r \in Requests |-> Idle]
    /\ started = 0
    /\ last = NoLast


dbvars == <<ingest_process, ingest_process_tag, object_group, objects>>

\* the request in slot r becomes q, and counts as received
Received(r, q) ==
    /\ req' = [req EXCEPT ![r] = q]
    /\ started' = started + 1
    /\ UNCHANGED last

\* the request in slot r moves on to q
Moved(r, q) ==
    /\ req' = [req EXCEPT ![r] = q]
    /\ UNCHANGED <<started, last>>

----------------------------------------------------------------------------
(* GET /ingest-process/{id} *)

GetIngestProcess(r, id) ==
    /\ CanArrive(r)
    /\ LET q == Arrive(r, "get", id, "", <<>>, TRUE)
       IN  IF id \in DOMAIN ingest_process
           THEN Received(r, Finish(q, 200, ToGet(ingest_process[id])))
           ELSE Received(r, Finish(q, 404, <<>>))
    /\ UNCHANGED dbvars

----------------------------------------------------------------------------
(* POST /ingest-process *)

\* hasattr(object, name) for a pydantic model: its declared fields
HasAttr(obj, name) == name \in DOMAIN obj.vals

\* the ObjectGroup is committed before the access check
CreateGroupFirst(r, json, access) ==
    /\ CanArrive(r)
    /\ object_group' = object_group \cup {NewGroupId}
    /\ Received(r, Finish(Arrive(r, "create", NoId, "", json, access),
                          IF access THEN 500 ELSE 403, <<>>))
    /\ UNCHANGED <<ingest_process, ingest_process_tag, objects>>

\* The handler commits an ObjectGroup and then reads object.tags.  Post
\* declares no field tags and ignores extra keys, so the read raises
\* AttributeError for every body: the session is closed with nothing
\* pending, the request is answered 500, and lines 88-99 (the insertion of
\* the process) are never run.
CreateIngestProcess(r, json, access) ==
    /\ CanArrive(r)
    /\ LET q      == Arrive(r, "create", NoId, "", json, access)
           object == Parse(json, PostFields)
       IN  IF ~access
           THEN /\ Received(r, Finish(q, 403, <<>>))
                /\ UNCHANGED dbvars
           ELSE /\ object_group' = object_group \cup {NewGroupId}
                /\ ~HasAttr(object, "tags")
                /\ Received(r, Finish(q, 500, <<>>))
                /\ UNCHANGED <<ingest_process, ingest_process_tag, objects>>

----------------------------------------------------------------------------
(* PATCH /ingest-process/{id} *)

\* a source_id column with no constraint
ViolatesNothing(values) == FALSE

\* the constraints of ingest_process.source_id: set, and a row of sources
ViolatesConstraint(values) ==
    /\ "source_id" \in DOMAIN values
    /\ values["source_id"] \notin Sources

\* UPDATE ... SET values: the row with the given columns replaced
Updated(row, values) ==
    [f \in DOMAIN row |-> IF f \in DOMAIN values THEN values[f] ELSE row[f]]

\* an UPDATE of row id by another session is waiting for its commit
RowLocked(r, id) ==
    \E q \in Requests \ {r} : req[q].pc = "p_commit" /\ req[q].id = id

\* The handler up to "await session.scalar(update_stmt)" and the building
\* of the response.  An UPDATE that finds the row locked waits (the action
\* is not enabled).  An UPDATE with no SET column is left to the database
\* driver: it is either rejected or run as an update that changes nothing.
PatchIngestProcess(r, id, json, access) ==
    /\ CanArrive(r)
    /\ ~RowLocked(r, id)
    /\ UNCHANGED dbvars
    /\ LET q      == Arrive(r, "patch", id, "", json, access)
           object == Parse(json, PatchFields)
           values == ModelDump(object, TRUE)
       IN  IF ~access
           THEN Received(r, Finish(q, 403, <<>>))
           ELSE IF id \notin DOMAIN ingest_process
           THEN \* server_object is None: server_object.__dict__ raises
                Received(r, Finish(q, 500, <<>>))
           ELSE IF ViolatesConstraint(values)
           THEN Received(r, Finish(q, 500, <<>>))
           ELSE \/ /\ DOMAIN values = {}
                   /\ Received(r, Finish(q, 500, <<>>))
                \/ Received(r, [q EXCEPT !.pc = "p_commit",
                                         !.pend = Updated(ingest_process[id], values)])

\* await session.commit(); return response
PatchCommit(r) ==
    /\ req[r].pc = "p_commit"
    /\ ingest_process' = [ingest_process EXCEPT ![req[r].id] = req[r].pend]
    /\ Moved(r, Finish(req[r], 200, ToGet(req[r].pend)))
    /\ UNCHANGED <<ingest_process_tag, object_group, objects>>

----------------------------------------------------------------------------
(* POST /ingest-process/{id}/tags *)

\* up to "await session.get(IngestProcessSchema, id)" and the 404
AddTagLoad(r, id, tag, access) ==
    /\ CanArrive(r)
    /\ UNCHANGED dbvars
    /\ LET q == Arrive(r, "addtag", id, tag, <<>>, access)
       IN  IF ~access
           THEN Received(r, Finish(q, 403, <<>>))
           ELSE IF id \notin DOMAIN ingest_process
           THEN Received(r, Finish(q, 404, <<>>))
           ELSE Received(r, [q EXCEPT !.pc = "a_commit"])

\* the tags of the process are written back as they were loaded, with the
\* new one: what others committed since the load is lost
AddTagCommitOverwrite(r) ==
    /\ req[r].pc = "a_commit"
    /\ LET NotOwn(row) == row.ingest_process_id # req[r].id
           Own(row)    == row.ingest_process_id = req[r].id
       IN  ingest_process_tag' =
             SelectSeq(ingest_process_tag, NotOwn)
             \o SelectSeq(req[r].db0.tags, Own)
             \o << [ingest_process_id |-> req[r].id, tag |-> req[r].tag, del |-> "none"] >>
    /\ Moved(r, [req[r] EXCEPT !.pc = "a_reread"])
    /\ UNCHANGED <<ingest_process, object_group, objects>>

\* ingest_process.tags.append(IngestProcessTag(tag=tag.tag)); commit
AddTagCommit(r) ==
    /\ req[r].pc = "a_commit"
    /\ ingest_process_tag' =
         Append(ingest_process_tag,
                [ingest_process_id |-> req[r].id, tag |-> req[r].tag, del |-> "none"])
    /\ Moved(r, [req[r] EXCEPT !.pc = "a_reread"])
    /\ UNCHANGED <<ingest_process, object_group, objects>>

\* the tag the request appended, alone
OnlyAppended(r) == <<req[r].tag>>

\* session.get again after the commit expired the instance: the tags are
\* loaded afresh
Reloaded(r) == TagsOf(ingest_process_tag, req[r].id)

AddTagReread(r) ==
    /\ req[r].pc = "a_reread"
    /\ Moved(r, Finish(req[r], 200, Reloaded(r)))
    /\ UNCHANGED dbvars

----------------------------------------------------------------------------
(* DELETE /ingest-process/{id}/tags/{tag} *)

\* the process is not looked up: the DELETE runs for any id
DeleteTagLoadNoCheck(r, id, tag, access) ==
    /\ CanArrive(r)
    /\ UNCHANGED dbvars
    /\ LET q == Arrive(r, "deltag", id, tag, <<>>, access)
       IN  IF ~access
           THEN Received(r, Finish(q, 403, <<>>))
           ELSE Received(r, [q EXCEPT !.pc = "d_execute"])

DeleteTagLoad(r, id, tag, access) ==
    /\ CanArrive(r)
    /\ UNCHANGED dbvars
    /\ LET q == Arrive(r, "deltag", id, tag, <<>>, access)
       IN  IF ~access
           THEN Received(r, Finish(q, 403, <<>>))
           ELSE IF id \notin DOMAIN ingest_process
           THEN Received(r, Finish(q, 404, <<>>))
           ELSE Received(r, [q EXCEPT !.pc = "d_execute"])

\* DELETE ... LIMIT 1: only the first matching row is deleted
DeleteTagExecuteOne(r) ==
    /\ req[r].pc = "d_execute"
    /\ LET hits == { i \in DOMAIN ingest_process_tag :
                       /\ Matches(ingest_process_tag[i], req[r].id, req[r].tag)
                       /\ ingest_process_tag[i].del = "none" }
       IN  /\ ingest_process_tag' =
                [ i \in DOMAIN ingest_process_tag |->
                    IF i \in hits /\ \A j \in hits : i <= j
                    THEN [ingest_process_tag[i] EXCEPT !.del = r]
                    ELSE ingest_process_tag[i] ]
           /\ Moved(r, [req[r] EXCEPT !.pc = "d_commit"])
    /\ UNCHANGED <<ingest_process, object_group, objects>>

\* await session.execute(tag_stmt): the matching rows are deleted in the
\* session's transaction.  A matching row another session has deleted and
\* not committed is that session's: this one waits for its commit.
DeleteTagExecute(r) ==
    /\ req[r].pc = "d_execute"
    /\ LET hit(i) == Matches(ingest_process_tag[i], req[r].id, req[r].tag)
           others == { ingest_process_tag[i].del : i \in { j \in DOMAIN ingest_process_tag : hit(j) } }
                       \ {"none", r}
       IN  /\ ingest_process_tag' =
                [ i \in DOMAIN ingest_process_tag |->
                    IF hit(i) /\ ingest_process_tag[i].del = "none"
                    THEN [ingest_process_tag[i] EXCEPT !.del = r]
                    ELSE ingest_process_tag[i] ]
           /\ Moved(r, [req[r] EXCEPT !.pc = "d_commit", !.wait = others])
    /\ UNCHANGED <<ingest_process, object_group, objects>>

\* await session.commit()
DeleteTagCommit(r) ==
    /\ req[r].pc = "d_commit"
    /\ req[r].wait = {}
    /\ ingest_process_tag' = Without(ingest_process_tag, r)
    /\ req' = [ q \in Requests |->
                  IF q = r THEN [req[r] EXCEPT !.pc = "d_reread"]
                  ELSE [req[q] EXCEPT !.wait = @ \ {r}] ]
    /\ UNCHANGED <<ingest_process, object_group, objects, started, last>>

DeleteTagReread(r) ==
    /\ req[r].pc = "d_reread"
    /\ Moved(r, Finish(req[r], 200, Reloaded(r)))
    /\ UNCHANGED dbvars

----------------------------------------------------------------------------
(* GET /ingest-process/{id}/objects *)

\* await session.scalar(select_stmt), and ingest_process.object_group_id:
\* for an id that has no row the scalar is None and the attribute read raises
ObjectsLoadProcess(r, id) ==
    /\ CanArrive(r)
    /\ UNCHANGED dbvars
    /\ LET q == Arrive(r, "objects", id, "", <<>>, TRUE)
       IN  IF id \notin DOMAIN ingest_process
           THEN Received(r, Finish(q, 500, <<>>))
           ELSE Received(r, [q EXCEPT !.pc = "o_group",
                                      !.pend = ingest_process[id].object_group_id])

\* await session.execute(object_stmt); .scalar().objects; the session is
\* released at the end of the "async with" block
ObjectsLoadGroup(r) ==
    /\ req[r].pc = "o_group"
    /\ Moved(r, [req[r] EXCEPT !.pc = "o_enrich", !.pend = ObjectsOf(objects, req[r].pend)])
    /\ UNCHANGED dbvars

\* m.presigned_get_object(bucket_name, object_name) of the client built on
\* the first object's host
Presigned(endpoint, obj) == <<endpoint, obj.bucket, obj.key>>

\* the object as it is returned: obj.pre_signed_url = ...
Enriched(endpoint, obj) == [ obj EXCEPT !.pre_signed_url = Presigned(endpoint, obj) ]

\* a failure after the k-th object is swallowed: the objects enriched so
\* far are returned, the others without a URL
ObjectsEnrichPartial(r, failure) ==
    /\ req[r].pc = "o_enrich"
    /\ LET schema_objects == req[r].pend
           n == Len(schema_objects)
           Ended(q) == Moved(r, [q EXCEPT !.failure = failure])
       IN  /\ n > 0 \/ failure = NoFailure
           /\ failure.at <= n
           /\ IF n = 0
              THEN Ended(Finish(req[r], 200, <<>>))
              ELSE IF failure = ClientFailure
              THEN Ended(Finish([req[r] EXCEPT !.minio = 1], 500, <<>>))
              ELSE LET k == IF failure = NoFailure THEN n + 1 ELSE failure.at
                   IN  Ended(Finish([req[r] EXCEPT !.minio = 1,
                                                    !.presigned = IF k > n THEN n ELSE k],
                                       200,
                                       [ i \in 1..n |->
                                           IF i < k THEN Enriched(schema_objects[1].host, schema_objects[i])
                                           ELSE schema_objects[i] ]))
    /\ UNCHANGED dbvars

\* the URLs are attached while the session is open and committed with it
ObjectsEnrichPersist(r, failure) ==
    /\ req[r].pc = "o_enrich"
    /\ LET schema_objects == req[r].pend
           n == Len(schema_objects)
           Ended(q) == Moved(r, [q EXCEPT !.failure = failure])
       IN  /\ n > 0 \/ failure = NoFailure
           /\ failure.at <= n
           /\ IF n = 0
              THEN /\ Ended(Finish(req[r], 200, <<>>))
                   /\ UNCHANGED objects
              ELSE IF failure # NoFailure
              THEN /\ Ended(Finish([req[r] EXCEPT !.minio = 1], 500, <<>>))
                   /\ UNCHANGED objects
              ELSE /\ Ended(Finish([req[r] EXCEPT !.minio = 1, !.presigned = n], 200,
                                      [ i \in 1..n |-> Enriched(schema_objects[1].host, schema_objects[i]) ]))
                   /\ objects' = [ i \in DOMAIN objects |->
                                     IF objects[i] \in Range(schema_objects)
                                     THEN Enriched(schema_objects[1].host, objects[i])
                                     ELSE objects[i] ]
    /\ UNCHANGED <<ingest_process, ingest_process_tag, object_group>>

\* an empty list starts the enrichment all the same: the client is built
\* on schema_objects[0], which raises
ObjectsEnrichNoShortCut(r, failure) ==
    /\ req[r].pc = "o_enrich"
    /\ LET schema_objects == req[r].pend
           n == Len(schema_objects)
           Ended(q) == Moved(r, [q EXCEPT !.failure = failure])
       IN  /\ n > 0 \/ failure = NoFailure
           /\ failure.at <= n
           /\ IF n = 0
              THEN Ended(Finish([req[r] EXCEPT !.minio = 1], 500, <<>>))
              ELSE IF failure = ClientFailure
              THEN Ended(Finish([req[r] EXCEPT !.minio = 1], 500, <<>>))
              ELSE IF failure # NoFailure
              THEN Ended(Finish([req[r] EXCEPT !.minio = 1, !.presigned = failure.at], 500, <<>>))
              ELSE Ended(Finish([req[r] EXCEPT !.minio = 1, !.presigned = n], 200,
                                   [ i \in 1..n |-> Enriched(schema_objects[1].host, schema_objects[i]) ]))
    /\ UNCHANGED dbvars

\* Lines 204-221, after the session is released: an empty list is returned
\* at once; otherwise one client is built and a URL is requested for every
\* object in turn, and the first failure ends the call with a 500.  minio
\* and presigned count the clients built and the URLs requested.
ObjectsEnrich(r, failure) ==
    /\ req[r].pc = "o_enrich"
    /\ LET schema_objects == req[r].pend
           n == Len(schema_objects)
           Ended(q) == Moved(r, [q EXCEPT !.failure = failure])
       IN  /\ n > 0 \/ failure = NoFailure
           /\ failure.at <= n
           /\ IF n = 0
              THEN Ended(Finish(req[r], 200, <<>>))
              ELSE IF failure = ClientFailure
              THEN Ended(Finish([req[r] EXCEPT !.minio = 1], 500, <<>>))
              ELSE IF failure # NoFailure
              THEN Ended(Finish([req[r] EXCEPT !.minio = 1, !.presigned = failure.at], 500, <<>>))
              ELSE Ended(Finish([req[r] EXCEPT !.minio = 1, !.presigned = n], 200,
                                   [ i \in 1..n |-> Enriched(schema_objects[1].host, schema_objects[i]) ]))
    /\ UNCHANGED dbvars

----------------------------------------------------------------------------
(* The response leaves; the slot is free again *)

Respond(r) ==
    /\ req[r].pc = "done"
    /\ req' = [req EXCEPT ![r] = Idle]
    /\ last' = IF req[r].kind = "addtag" /\ req[r].out = 200
               THEN [ id |-> req[r].id, tag |-> req[r].tag,
                      tags0 |-> TagsOf(req[r].db0.tags, req[r].id) ]
               ELSE NoLast
    /\ UNCHANGED <<ingest_process, ingest_process_tag, object_group, objects, started>>

----------------------------------------------------------------------------
(* Request bodies *)

JsonValues(k) ==
    CASE k = "state"           -> {"complete"}
      [] k = "comments"        -> {"x", None}
      [] k = "source_id"       -> {8, 9, NoId}
      [] k = "access_group_id" -> {2}
      [] k = "object_group_id" -> {NoId}
      [] k = "tags"            -> {<<"a">>}

RECURSIVE JsonOver(_)
JsonOver(S) ==
    IF S = {} THEN {<<>>}
    ELSE LET k == CHOOSE x \in S : TRUE
         IN  { (k :> v) @@ j : v \in JsonValues(k), j \in JsonOver(S \ {k}) }

JsonBodies(keys, n) ==
    UNION { JsonOver(S) : S \in { T \in SUBSET keys : Cardinality(T) <= n } }

PatchJsons  == JsonBodies(PostFields \cup {"object_group_id"}, MaxFieldsSet)
CreateJsons == JsonBodies({"source_id", "state", "tags"}, MaxFieldsSet)

\* the bodies of the requests that run concurrently
FewPatchJsons  == { [comments |-> "x"], [source_id |-> 9], [object_group_id |-> NoId] }
FewCreateJsons == { [source_id |-> 8], [source_id |-> 9] }

----------------------------------------------------------------------------
(* Specifications *)

Enter(r, patches, creates) ==
    \/ \E id \in ReqIds : GetIngestProcess(r, id)
    \/ \E json \in creates, access \in BOOLEAN : CreateIngestProcess(r, json, access)
    \/ \E id \in ReqIds, json \in patches, access \in BOOLEAN :
          PatchIngestProcess(r, id, json, access)
    \/ \E id \in ReqIds, tag \in TagStrings, access \in BOOLEAN :
          AddTagLoad(r, id, tag, access)
    \/ \E id \in ReqIds, tag \in TagStrings, access \in BOOLEAN :
          DeleteTagLoad(r, id, tag, access)
    \/ \E id \in ListIds : ObjectsLoadProcess(r, id)

Continue(r) ==
    \/ PatchCommit(r)
    \/ AddTagCommit(r)
    \/ AddTagReread(r)
    \/ DeleteTagExecute(r)
    \/ DeleteTagCommit(r)
    \/ DeleteTagReread(r)
    \/ ObjectsLoadGroup(r)
    \/ \E failure \in Failures(Len(objects)) : ObjectsEnrich(r, failure)
    \/ Respond(r)

\* requests interleave at their awaits
Next == \E r \in Requests : Enter(r, FewPatchJsons, FewCreateJsons) \/ Continue(r)

Spec == Init /\ [][Next]_vars

\* one request at a time: a request arrives when no other is in flight
OthersIdle(r) == \A q \in Requests \ {r} : req[q].pc = "idle"

SeqNext == \E r \in Requests : (OthersIdle(r) /\ Enter(r, PatchJsons, CreateJsons)) \/ Continue(r)

SeqSpec == Init /\ [][SeqNext]_vars

----------------------------------------------------------------------------
TypeOK ==
    /\ started \in 0..MaxRequests
    /\ \A r \in Requests : req[r].pc \in {"idle", "done", "p_commit", "a_commit", "a_reread",
                                          "d_execute", "d_commit", "d_reread",
                                          "o_group", "o_enrich"}


----------------------------------------------------------------------------
(* Properties *)

Done(r, kind) == req[r].pc = "done" /\ req[r].kind = kind

\* C2: a create that names a source that does not exist is answered with an
\* error and leaves the ingest_process and object_group tables as they were
\* when it arrived.
C2_UnknownSourceLeavesNothing ==
    \A r \in Requests :
        ( /\ Done(r, "create")
          /\ req[r].access
          /\ "source_id" \in DOMAIN req[r].json
          /\ req[r].json["source_id"] \notin Sources )
        => /\ req[r].out >= 400
           /\ ingest_process = req[r].db0.ip
           /\ object_group = req[r].db0.og

\* C3: in every state of every interleaving, each committed ingest process
\* has an object_group_id that is set and names a committed object group,
\* and so has each process a read has returned.
C3_NoDanglingObjectGroup ==
    /\ \A id \in DOMAIN ingest_process :
          /\ ingest_process[id].object_group_id # NoId
          /\ ingest_process[id].object_group_id \in object_group
    /\ \A r \in Requests :
          (Done(r, "get") /\ req[r].out = 200)
          => /\ req[r].res.object_group_id # NoId
             /\ req[r].res.object_group_id \in object_group

\* a read has returned a process while a patch of it has committed and a
\* create has committed its object group
C3_Witness ==
    \E r, q \in Requests :
        /\ Done(r, "get") /\ req[r].out = 200
        /\ Done(q, "patch") /\ req[q].out = 200 /\ req[q].id = req[r].id
        /\ Cardinality(object_group) > 2

\* C4: a create, patch, add-tag or delete-tag that arrives without access is
\* answered 403 in the very step it arrives in, and that step writes nothing.
C4_DeniedWritesNothing ==
    [][ \A r \in Requests :
           ( /\ req[r].pc = "idle"
             /\ req'[r].pc # "idle"
             /\ req'[r].kind \in {"create", "patch", "addtag", "deltag"}
             /\ ~req'[r].access )
           => /\ req'[r].pc = "done"
              /\ req'[r].out = 403
              /\ UNCHANGED dbvars ]_vars

\* a create and a delete of a tag the process has were both denied
C4_Witness ==
    \E r, q \in Requests :
        /\ Done(r, "create") /\ ~req[r].access /\ req[r].out = 403
        /\ object_group = req[r].db0.og
        /\ Done(q, "deltag") /\ ~req[q].access /\ req[q].out = 403
        /\ req[q].tag \in Range(TagsOf(req[q].db0.tags, req[q].id))

\* C5: a patch that succeeded has set the fields its body gave to the given
\* values, and has left the fields it did not give, the tags, the object
\* groups and every other process as they were.
C5_PatchIsSparse ==
    \A r \in Requests :
        (Done(r, "patch") /\ req[r].out = 200)
        => LET id  == req[r].id
               old == req[r].db0.ip[id]
               new == ingest_process[id]
           IN  /\ \A f \in DOMAIN new :
                     new[f] = IF f \in {"state", "comments", "source_id", "access_group_id"}
                                 /\ f \in DOMAIN req[r].json
                              THEN req[r].json[f]
                              ELSE old[f]
               /\ \A j \in DOMAIN ingest_process \ {id} : ingest_process[j] = req[r].db0.ip[j]
               /\ DOMAIN ingest_process = DOMAIN req[r].db0.ip
               /\ Committed(ingest_process_tag) = req[r].db0.tags
               /\ object_group = req[r].db0.og
               /\ req[r].res = ToGet(new)

\* a patch of the comments alone has succeeded and changed them
C5_Witness ==
    \E r \in Requests :
        /\ Done(r, "patch") /\ req[r].out = 200
        /\ DOMAIN req[r].json = {"comments"}
        /\ ingest_process[req[r].id].comments = "x"
        /\ req[r].db0.ip[req[r].id].comments # "x"
        /\ ingest_process[req[r].id].state # None

\* C6: a patch of an id that has no row is answered 404 and leaves the
\* database as it was.
C6_PatchMissingIsNotFound ==
    \A r \in Requests :
        ( /\ Done(r, "patch")
          /\ req[r].access
          /\ req[r].id \notin DOMAIN req[r].db0.ip )
        => /\ req[r].out = 404
           /\ Db = req[r].db0

\* C7: deleting a tag the process does not have succeeds, leaves the tag
\* table as it was and returns the tags the process had.
C7_DeleteAbsentIsNoOp ==
    \A r \in Requests :
        ( /\ Done(r, "deltag")
          /\ req[r].access
          /\ req[r].id \in DOMAIN req[r].db0.ip
          /\ req[r].tag \notin Range(TagsOf(req[r].db0.tags, req[r].id)) )
        => /\ req[r].out = 200
           /\ Committed(ingest_process_tag) = req[r].db0.tags
           /\ req[r].res = TagsOf(req[r].db0.tags, req[r].id)

\* a tag the process does not have, and another process has, was deleted
\* from a process that has tags
C7_Witness ==
    \E r \in Requests :
        /\ Done(r, "deltag") /\ req[r].out = 200
        /\ req[r].tag \notin Range(TagsOf(req[r].db0.tags, req[r].id))
        /\ TagsOf(req[r].db0.tags, req[r].id) # <<>>
        /\ \E i \in DOMAIN req[r].db0.tags : req[r].db0.tags[i].tag = req[r].tag

\* a delete-tag(id, t) was answered, and the request answered before it
\* arrived was a successful add-tag(id, t)
RoundTrip(r) ==
    /\ Done(r, "deltag")
    /\ req[r].out = 200
    /\ last.id = req[r].id
    /\ last.tag = req[r].tag

\* C8 as stated: add-tag(t) and then delete-tag(t) returns the tags the
\* process had before the add, whatever t is.
C8_RoundTripAnyTag ==
    \A r \in Requests : RoundTrip(r) => req[r].res = last.tags0

\* C8: add-tag(t) and then delete-tag(t), for a tag t the process did not
\* have before the add, returns the tags the process had before the add.
C8_RoundTripNewTag ==
    \A r \in Requests :
        (RoundTrip(r) /\ last.tag \notin Range(last.tags0))
        => req[r].res = last.tags0

\* a round trip with a new tag on a process that had tags
C8_Witness ==
    \E r \in Requests :
        /\ RoundTrip(r)
        /\ last.tag \notin Range(last.tags0)
        /\ last.tags0 # <<>>

\* C9: after a delete-tag(id, t) no row (id, t) is left, every other row of
\* the tag table is still there in its place, and the answer is what is
\* left of the tags of the process.
C9_DeleteByValue ==
    \A r \in Requests :
        (Done(r, "deltag") /\ req[r].out = 200)
        => LET Other(row) == ~(row.ingest_process_id = req[r].id /\ row.tag = req[r].tag)
               left == SelectSeq(req[r].db0.tags, Other)
           IN  /\ Committed(ingest_process_tag) = left
               /\ \A i \in DOMAIN ingest_process_tag : Other(ingest_process_tag[i])
               /\ req[r].res = TagsOf(left, req[r].id)

\* a tag the process had twice was deleted, and another tag of it was not
C9_Witness ==
    \E r \in Requests :
        /\ Done(r, "deltag") /\ req[r].out = 200
        /\ Len(TagsOf(req[r].db0.tags, req[r].id)) = 3
        /\ Len(req[r].res) = 1

\* C10: an add-tag(id, t) appends one row (id, t) to the tag table and
\* answers with the tags the process had, in their order, followed by t.
C10_AddReturnsWholeList ==
    \A r \in Requests :
        (Done(r, "addtag") /\ req[r].out = 200)
        => /\ Committed(ingest_process_tag) =
                Append(req[r].db0.tags,
                       [ingest_process_id |-> req[r].id, tag |-> req[r].tag, del |-> "none"])
           /\ req[r].res = Append(TagsOf(req[r].db0.tags, req[r].id), req[r].tag)

\* a tag was added to a process that had two
C10_Witness ==
    \E r \in Requests :
        /\ Done(r, "addtag") /\ req[r].out = 200
        /\ Len(TagsOf(req[r].db0.tags, req[r].id)) = 2
        /\ Len(req[r].res) = 3


\* the objects of the process a listing names, as stored when it arrived
Listed(r) == ObjectsOf(req[r].db0.obj, req[r].db0.ip[req[r].id].object_group_id)

ListedExisting(r) == Done(r, "objects") /\ req[r].id \in DOMAIN req[r].db0.ip

\* C11: a listing of the objects of a process whose object group is empty
\* answers with the empty list, and has built no object-store client and
\* requested no URL.
C11_EmptyGroupShortCircuits ==
    \A r \in Requests :
        (ListedExisting(r) /\ Listed(r) = <<>>)
        => /\ req[r].out = 200
           /\ req[r].res = <<>>
           /\ req[r].minio = 0
           /\ req[r].presigned = 0

\* the objects of process 1, whose group is empty, were listed
C11_Witness ==
    \E r \in Requests :
        /\ ListedExisting(r) /\ Listed(r) = <<>>
        /\ req[r].out = 200
        /\ req[r].db0.obj # <<>>

\* C12: a listing of N >= 1 objects during which the object store failed,
\* at the client or at the URL of any object, is answered 500 with no
\* object; one without a failure returns the N objects, each with its URL.
C12_EnrichmentAllOrNothing ==
    \A r \in Requests :
        (ListedExisting(r) /\ Len(Listed(r)) >= 1)
        => IF req[r].failure # NoFailure
           THEN req[r].out = 500 /\ req[r].res = <<>>
           ELSE /\ req[r].out = 200
                /\ Len(req[r].res) = Len(Listed(r))
                /\ \A i \in DOMAIN req[r].res :
                      /\ req[r].res[i].pre_signed_url # NoUrl
                      /\ req[r].res[i].id = Listed(r)[i].id
                      /\ req[r].res[i].pre_signed_url[2] = Listed(r)[i].bucket
                      /\ req[r].res[i].pre_signed_url[3] = Listed(r)[i].key

\* the URL of the last of two objects failed after the first was signed
C12_Witness ==
    \E r \in Requests :
        /\ ListedExisting(r)
        /\ Len(Listed(r)) = 2
        /\ req[r].failure = [ of |-> "presign", at |-> 2 ]
        /\ req[r].out = 500

\* C13: a listing of the objects of a process that does not exist is
\* answered 404.
C13_ListMissingIsNotFound ==
    \A r \in Requests :
        (Done(r, "objects") /\ req[r].id \notin DOMAIN req[r].db0.ip)
        => req[r].out = 404

\* C19: no step of a listing of objects changes a stored object, object
\* group, process or tag; no stored object carries a URL; a URL is requested
\* only once the session is released; and a listing that succeeds has
\* requested one URL for each object it returns.
C19_UrlsNeverPersisted ==
    [][ \A r \in Requests :
           (req'[r] # req[r] /\ req'[r].kind = "objects")
           => /\ UNCHANGED dbvars
              /\ \A i \in DOMAIN objects' : objects'[i].pre_signed_url = NoUrl
              /\ (req'[r].presigned > req[r].presigned \/ req'[r].minio > req[r].minio)
                    => req[r].pc = "o_enrich"
              /\ (req'[r].pc = "done" /\ req'[r].out = 200)
                    => req'[r].presigned = Len(req'[r].res) ]_vars

\* one listing has returned two objects with their URLs, another has failed
\* at the object store
C19_Witness ==
    \E r, q \in Requests :
        /\ Done(r, "objects") /\ req[r].out = 200 /\ Len(req[r].res) = 2
        /\ \A i \in DOMAIN req[r].res : req[r].res[i].pre_signed_url # NoUrl
        /\ Done(q, "objects") /\ req[q].out = 500 /\ req[q].minio = 1
        /\ objects = req[r].db0.obj


\* C14: an add-tag or delete-tag that arrives with access for an id that has
\* no process is answered 404 in the step it arrives in, and that step
\* changes no table.
C14_TagOnMissingIsNotFound ==
    [][ \A r \in Requests :
           ( /\ req[r].pc = "idle"
             /\ req'[r].pc # "idle"
             /\ req'[r].kind \in {"addtag", "deltag"}
             /\ req'[r].access
             /\ req'[r].id \notin DOMAIN ingest_process )
           => /\ req'[r].pc = "done"
              /\ req'[r].out = 404
              /\ UNCHANGED dbvars ]_vars

\* an add-tag and a delete-tag for process 3 were both answered 404
C14_Witness ==
    \E r, q \in Requests :
        /\ Done(r, "addtag") /\ req[r].access /\ req[r].out = 404
        /\ Done(q, "deltag") /\ req[q].access /\ req[q].out = 404
        /\ req[r].id \notin DOMAIN ingest_process
        /\ req[q].id \notin DOMAIN ingest_process
        /\ Committed(ingest_process_tag) = req[q].db0.tags

\* C15: a create with access, a source that exists and tags t1..tn succeeds,
\* and the process it returns is stored with an id, an object group, a
\* creation time and exactly the tags t1..tn, in that order.
C15_CreateAttachesTags ==
    \A r \in Requests :
        ( /\ Done(r, "create")
          /\ req[r].access
          /\ "source_id" \in DOMAIN req[r].json
          /\ req[r].json["source_id"] \in Sources
          /\ "tags" \in DOMAIN req[r].json )
        => /\ req[r].out = 200
           /\ req[r].res.id \in DOMAIN ingest_process
           /\ req[r].res.id \notin DOMAIN req[r].db0.ip
           /\ req[r].res.object_group_id \in object_group
           /\ req[r].res.created_on # NoId
           /\ TagsOf(ingest_process_tag, req[r].res.id) = req[r].json["tags"]

C17_ImmutableFields ==
    [][ \A id \in DOMAIN ingest_process :
           /\ id \in DOMAIN ingest_process'
           /\ ingest_process'[id].id = ingest_process[id].id
           /\ ingest_process'[id].object_group_id = ingest_process[id].object_group_id
           /\ ingest_process'[id].created_on = ingest_process[id].created_on ]_vars

\* a patch whose body names object_group_id has succeeded and has changed
\* the comments
C17_Witness ==
    \E r \in Requests :
        /\ Done(r, "patch") /\ req[r].out = 200
        /\ "object_group_id" \in DOMAIN req[r].json
        /\ ingest_process[req[r].id].comments # req[r].db0.ip[req[r].id].comments
        /\ ingest_process[req[r].id].object_group_id = req[r].id

\* C18: an add-tag or delete-tag reaches its reread only through its own
\* commit, and the list it returns is the committed tags of the process at
\* the step of the reread.
C18_RereadIsCommitTime ==
    [][ \A r \in Requests :
           /\ (req'[r].pc \in {"a_reread", "d_reread"} /\ req[r].pc # req'[r].pc)
                 => /\ req[r].pc \in {"a_commit", "d_commit"}
                    /\ IF req[r].pc = "a_commit"
                       THEN Committed(ingest_process_tag') =
                              Append(Committed(ingest_process_tag),
                                     [ingest_process_id |-> req[r].id, tag |-> req[r].tag,
                                      del |-> "none"])
                       ELSE \A i \in DOMAIN ingest_process_tag' :
                               ~( /\ ingest_process_tag'[i].ingest_process_id = req[r].id
                                  /\ ingest_process_tag'[i].tag = req[r].tag
                                  /\ ingest_process_tag'[i].del = r )
           /\ (req[r].pc \in {"a_reread", "d_reread"} /\ req[r].pc # req'[r].pc)
                 => /\ req'[r].pc = "done"
                    /\ req'[r].out = 200
                    /\ req'[r].res = TagsOf(Committed(ingest_process_tag), req[r].id) ]_vars

\* an add-tag has returned a list that is not the list at its arrival with
\* its own tag appended: another request committed before the reread
C18_Witness ==
    \E r \in Requests :
        /\ Done(r, "addtag") /\ req[r].out = 200
        /\ req[r].res # Append(TagsOf(req[r].db0.tags, req[r].id), req[r].tag)
        /\ req[r].res = TagsOf(Committed(ingest_process_tag), req[r].id)

\* both slots hold an answered, successful tag request on the same process,
\* and they are the only requests received
OnlyTwo(r, q) ==
    /\ r # q
    /\ started = 2
    /\ req[r].pc = "done" /\ req[r].out = 200
    /\ req[q].pc = "done" /\ req[q].out = 200
    /\ req[r].id = req[q].id
    /\ req[r].tag # req[q].tag

\* C20: when two add-tags with different tags, or an add-tag(t1) and a
\* delete-tag(t2) with t1 # t2, are the only requests and both succeed, the
\* committed tags of the process hold both added tags, respectively hold t1
\* and not t2, and every tag that was there and was not deleted.
C20_NoLostTagUpdate ==
    \A r, q \in Requests :
        LET now   == TagsOf(Committed(ingest_process_tag), req[r].id)
            was   == TagsOf(req[r].db0.tags, req[r].id)
            wasq  == TagsOf(req[q].db0.tags, req[r].id)
            \* the tags before either arrived: what the first to arrive found
            first == IF Len(was) <= Len(wasq) THEN was ELSE wasq
        IN  /\ (OnlyTwo(r, q) /\ req[r].kind = "addtag" /\ req[q].kind = "addtag")
                 => /\ req[r].tag \in Range(now)
                    /\ req[q].tag \in Range(now)
                    /\ Len(now) = Len(first) + 2
                    /\ \A i \in DOMAIN first : now[i] = first[i]
            /\ (OnlyTwo(r, q) /\ req[r].kind = "addtag" /\ req[q].kind = "deltag")
                 => /\ req[r].tag \in Range(now)
                    /\ req[q].tag \notin Range(now)
                    /\ \A t \in Range(was) \ {req[q].tag} : t \in Range(now)

\* two add-tags that arrived before either committed have both succeeded
C20_Witness ==
    \E r, q \in Requests :
        /\ OnlyTwo(r, q)
        /\ req[r].kind = "addtag" /\ req[q].kind = "addtag"
        /\ req[r].db0 = req[q].db0

====
